---- MODULE Spec2Model ----
(***************************************************************************)
(* A model of the WebSpider crawler of src/main.py: the breadth-first      *)
(* crawl loop, the resumable ledger (index.txt), the tabular export        *)
(* (results.csv), the page store and the SIGINT handler.                    *)
(*                                                                         *)
(* Text is modelled as a sequence of atoms (short strings): a URL is the   *)
(* sequence of its lexical pieces, a ledger line is the decimal digits of  *)
(* the file number, one space atom and the URL's atoms.  Substring tests   *)
(* of the code become tests on atoms.                                      *)
(***************************************************************************)
EXTENDS Integers, Sequences, FiniteSets, TLC

VARIABLES
    web,              \* which site the crawler is pointed at (environment)
    start_url,        \* self.start_url
    min_pages,        \* self.min_pages
    max_depth,        \* self.max_depth
    visited_urls,     \* self.visited_urls
    results,          \* self.results
    downloaded_count, \* self.downloaded_count
    queue,            \* crawl's local queue of (url, depth, parent_url)
    cur,              \* the entry popped by the current loop iteration
    pc,               \* position of the process
    index_file,       \* index.txt on disk: a sequence of lines
    csv_file,         \* results.csv on disk: a sequence of rows
    pages_dir,        \* downloaded_pages/: set of [filename, content]
    run,              \* history: number of the current process run
    loaded,           \* history: number of records load_existing_data gave this run
    fetchLog,         \* history: fetches issued by this run, [url, depth, ok]
    deqLog,           \* history: depths of the entries dequeued by this run
    intAt,            \* history: pc at which SIGINT arrived ("" if none)
    failAt,           \* history: pc at which a write of index.txt or results.csv raised
    all_tokens,       \* process_downloaded_pages' local set all_tokens
    lemma_to_tokens,  \* process_downloaded_pages' local map lemma_to_tokens
    page_no,          \* process_downloaded_pages: index of the next record
    tokens_file,      \* tokens.txt on disk: a sequence of lines
    lemmas_file,      \* lemmas.txt on disk: a sequence of lines
    arg,              \* the argument of a function applied on its own
    ret               \* what that function returned ("unset" before)

vars == <<web, start_url, min_pages, max_depth, visited_urls, results,
          downloaded_count, queue, cur, pc, index_file, csv_file, pages_dir,
          run, loaded, fetchLog, deqLog, intAt, failAt, all_tokens,
          lemma_to_tokens, page_no, tokens_file, lemmas_file, arg, ret>>

----------------------------------------------------------------------------
(* Bounds of the model *)

\* number of process runs (the first one and the resumed ones)
MaxRuns == 2
\* the chain site has pages 0..ChainLen, each linking to the next
ChainLen == 10

----------------------------------------------------------------------------
(* Python values and text primitives *)

\* Python's None (the parent of the start entry and of loaded records)
PyNone == <<"<NoneType>">>

DigitAtoms == <<"0", "1", "2", "3", "4", "5", "6", "7", "8", "9">>

IsDigit(a) == \E d \in 1..10 : DigitAtoms[d] = a

DigitVal(a) == (CHOOSE d \in 1..10 : DigitAtoms[d] = a) - 1

\* str(n) for n >= 0, as in the f-strings of save_index_txt and crawl
RECURSIVE Str(_)
Str(n) == IF n < 10 THEN <<DigitAtoms[n + 1]>>
          ELSE Str(n \div 10) \o <<DigitAtoms[(n % 10) + 1]>>

\* int(s) raises ValueError unless s is a run of digits
IsInt(s) == s # <<>> /\ \A i \in DOMAIN s : IsDigit(s[i])

RECURSIVE ParseInt(_)
ParseInt(s) == IF s = <<>> THEN 0
               ELSE 10 * ParseInt(SubSeq(s, 1, Len(s) - 1)) + DigitVal(s[Len(s)])

IsSpace(a) == a = " "

\* str.strip(): drops leading and trailing whitespace
RECURSIVE Strip(_)
Strip(s) == IF s = <<>> THEN s
            ELSE IF IsSpace(Head(s)) THEN Strip(Tail(s))
            ELSE IF IsSpace(s[Len(s)]) THEN Strip(SubSeq(s, 1, Len(s) - 1))
            ELSE s

\* str.lower() on one atom
Lower(a) == CASE a = ".JS" -> ".js"
              [] a = ".JPG" -> ".jpg"
              [] a = "SID=" -> "sid="
              [] a = "SessionID" -> "sessionid"
              [] OTHER -> a

\* "x in url.lower()" for the markers x of a set
ContainsLower(url, markers) == \E i \in DOMAIN url : Lower(url[i]) \in markers

\* "x in url"
Contains(url, markers) == \E i \in DOMAIN url : url[i] \in markers

\* urlparse(url).netloc: the atoms between the scheme and the first delimiter
RECURSIVE UpToDelim(_)
UpToDelim(s) == IF s = <<>> \/ Head(s) \in {"/", "?", "#"} THEN <<>>
                ELSE <<Head(s)>> \o UpToDelim(Tail(s))

Netloc(url) == IF url # <<>> /\ Head(url) \in {"https://", "http://"}
               THEN UpToDelim(Tail(url)) ELSE <<>>

----------------------------------------------------------------------------
(* The sites (the environment): pages and the hrefs they carry, already    *)
(* joined with the page's URL as urljoin gives them.                       *)

GenRoot == <<"https://", "h", "/">>
GenA == GenRoot \o <<"a">>
GenB == GenRoot \o <<"b">>
\* an href with a trailing blank: urljoin keeps the blank
GenBsp == GenRoot \o <<"b", " ">>
GenC == GenRoot \o <<"c">>
GenOther == <<"https://", "x", "/", "a">>
GenScript == GenRoot \o <<"a", ".JS">>
GenFrag == GenRoot \o <<"a", "#", "t">>

StarRoot == <<"https://", "w", "/">>
StarLeaves == {StarRoot \o <<l>> : l \in {"l1", "l2", "l3", "l4", "l5"}}

ChainRoot == <<"https://", "c", "/">>
ChainPage(i) == ChainRoot \o [j \in 1..i |-> "p"]

Webs == {"gen", "star", "chain"}

Hrefs(w, url) ==
    CASE w = "gen" ->
           (CASE url = GenRoot -> {GenA, GenBsp, GenOther}
              [] url = GenA -> {GenC, GenRoot, GenScript}
              [] url = GenBsp -> {GenC, GenFrag}
              [] url = GenC -> {GenA}
              [] OTHER -> {})
      [] w = "star" ->
           (IF url = StarRoot THEN StarLeaves ELSE {StarRoot})
      [] w = "chain" ->
           IF Len(url) - 3 < ChainLen THEN {url \o <<"p">>} ELSE {}

\* the start URLs the operator may give for a site
StartUrls(w) == CASE w = "gen" -> {GenRoot, GenA}
                  [] w = "star" -> {StarRoot}
                  [] w = "chain" -> {ChainPage(0), ChainPage(3)}

\* the (min_pages, max_depth) pairs the operator may give for a site
Params(w) == CASE w = "gen" -> {<<2, 1>>, <<5, 2>>}
               [] w = "star" -> {<<3, 1>>}
               [] w = "chain" -> {<<ChainLen + 1, ChainLen>>}

----------------------------------------------------------------------------
(* WebSpider: pure helpers *)

DeniedExt == {".jpg", ".jpeg", ".png", ".gif", ".bmp", ".mp4", ".mp3", ".pdf",
              ".zip", ".rar", ".css", ".js", ".ico", ".svg", ".woff", ".ttf"}

base_domain == Netloc(start_url)

is_valid_url(url) ==
    IF ContainsLower(url, DeniedExt) THEN FALSE
    ELSE IF Netloc(url) # <<>> /\ Netloc(url) # base_domain THEN FALSE
    ELSE IF Contains(url, {"#"}) \/ ContainsLower(url, {"sessionid", "sid="}) THEN FALSE
    ELSE TRUE

\* the set extract_links collects; list(links) puts it in an arbitrary order
extract_links(url) ==
    {l \in Hrefs(web, url) : is_valid_url(l) /\ l \notin visited_urls}

\* the orders list(links) may give
Orders(S) == {s \in [1..Cardinality(S) -> S] : \A i, j \in DOMAIN s : i # j => s[i] # s[j]}

Filename(n) == <<"page_">> \o Str(n) \o <<".html">>

Max(a, b) == IF a >= b THEN a ELSE b

\* sorted(self.results, key=file_number): a stable insertion sort
RECURSIVE InsertSorted(_, _)
InsertSorted(r, s) ==
    IF s = <<>> THEN <<r>>
    ELSE IF s[Len(s)].file_number <= r.file_number THEN Append(s, r)
    ELSE Append(InsertSorted(r, SubSeq(s, 1, Len(s) - 1)), s[Len(s)])

RECURSIVE Sorted(_)
Sorted(s) == IF s = <<>> THEN <<>>
             ELSE InsertSorted(s[Len(s)], Sorted(SubSeq(s, 1, Len(s) - 1)))

\* one line of index.txt, without its newline
IndexLine(r) == Str(r.file_number) \o <<" ">> \o r.url

\* the text save_index_txt writes
IndexText(rs) == [i \in 1..Len(rs) |-> IndexLine(Sorted(rs)[i])]

\* csv.DictWriter writes None as the empty cell and a string as it is
CsvCell(v) == IF v = PyNone THEN <<>> ELSE v

CsvHeader == <<<<"file_number">>, <<"url">>, <<"filename">>, <<"parent">>>>

CsvRow(r) == <<Str(r.file_number), r.url, r.filename, CsvCell(r.parent)>>

\* the text save_csv writes
CsvText(rs) == <<CsvHeader>> \o [i \in 1..Len(rs) |-> CsvRow(Sorted(rs)[i])]

\* line.split(' ', 1): position of the first blank, 0 when there is none
RECURSIVE FirstSpace(_, _)
FirstSpace(s, i) == IF i > Len(s) THEN 0
                    ELSE IF s[i] = " " THEN i ELSE FirstSpace(s, i + 1)

\* a load that forgets to raise the counter
LoadCounterKept(count, n) == count

\* the counter load_existing_data leaves after a record numbered n
LoadCounter(count, n) == Max(count, n)

\* load_existing_data over the lines of index.txt, from session state st
RECURSIVE load_existing_data(_, _)
load_existing_data(lines, st) ==
    IF lines = <<>> THEN st
    ELSE LET line == Strip(Head(lines))
             sp == FirstSpace(line, 1)
             file_num == SubSeq(line, 1, sp - 1)
             url == SubSeq(line, sp + 1, Len(line))
         IN IF line = <<>> THEN load_existing_data(Tail(lines), st)
            ELSE IF sp = 0 THEN load_existing_data(Tail(lines), st)
            ELSE IF ~IsInt(file_num)
                 THEN load_existing_data(Tail(lines),
                        [st EXCEPT !.visited_urls = @ \cup {url}])
            ELSE load_existing_data(Tail(lines),
                   [visited_urls |-> st.visited_urls \cup {url},
                    results |-> Append(st.results,
                        [file_number |-> ParseInt(file_num),
                         url |-> url,
                         filename |-> Filename(ParseInt(file_num)),
                         parent |-> PyNone]),
                    downloaded_count |->
                        LoadCounter(st.downloaded_count, ParseInt(file_num))])

\* the session __init__ sets up before load_existing_data
EmptySession == [visited_urls |-> {}, results |-> <<>>, downloaded_count |-> 0]

NoEntry == [url |-> <<>>, depth |-> 0, parent |-> PyNone]

----------------------------------------------------------------------------
(* WebSpider: the state machine *)

TextState == <<all_tokens, lemma_to_tokens, page_no, tokens_file, lemmas_file>>
Call == <<arg, ret>>

\* what the crawl leaves alone: the text pass, the single calls, the write errors
Aside == <<TextState, Call, failAt>>

\* the text pass has not started
TextIdle ==
    /\ all_tokens = {}
    /\ lemma_to_tokens = <<>>
    /\ page_no = 0
    /\ tokens_file = <<>>
    /\ lemmas_file = <<>>

\* no function is applied on its own
NoCall == arg = <<>> /\ ret = "unset"

Init ==
    /\ web \in Webs
    /\ start_url \in StartUrls(web)
    /\ \E p \in Params(web) : min_pages = p[1] /\ max_depth = p[2]
    /\ visited_urls = {}
    /\ results = <<>>
    /\ downloaded_count = 0
    /\ queue = <<>>
    /\ cur = NoEntry
    /\ pc = "crawl"
    /\ index_file = <<>>
    /\ csv_file = <<>>
    /\ pages_dir = {}
    /\ run = 1
    /\ loaded = 0
    /\ fetchLog = <<>>
    /\ deqLog = <<>>
    /\ intAt = ""
    /\ failAt = ""
    /\ TextIdle
    /\ NoCall

Config == <<web, min_pages, max_depth>>
Session == <<visited_urls, results, downloaded_count>>
Disk == <<index_file, csv_file, pages_dir>>
History == <<run, loaded, fetchLog, deqLog, intAt>>

\* index.txt opened for appending instead of rewritten
save_index_txt_append == index_file' = index_file \o IndexText(results)

\* save_index_txt
save_index_txt == index_file' = IndexText(results)

\* save_csv
save_csv == csv_file' = CsvText(results)

\* save_all_data
save_all_data == save_index_txt /\ save_csv

\* a new process: __init__ with start URL u, over the files the last one left
WebSpider(u) ==
    /\ pc \in {"done", "exited"}
    /\ run < MaxRuns
    /\ LET st == load_existing_data(index_file, EmptySession)
       IN /\ visited_urls' = st.visited_urls
          /\ results' = st.results
          /\ downloaded_count' = st.downloaded_count
          /\ loaded' = Len(st.results)
    /\ start_url' = u
    /\ queue' = <<>>
    /\ cur' = NoEntry
    /\ pc' = "crawl"
    /\ run' = run + 1
    /\ fetchLog' = <<>>
    /\ deqLog' = <<>>
    /\ intAt' = ""
    /\ UNCHANGED <<Aside, Config, Disk>>

\* crawl, lines 121-125: nothing remains to be downloaded
crawl_nothing_remaining ==
    /\ pc = "crawl"
    /\ min_pages - Cardinality(visited_urls) <= 0
    /\ save_all_data
    /\ pc' = "done"
    /\ UNCHANGED <<Aside, Config, start_url, Session, queue, cur, pages_dir, History>>

\* crawl, lines 121-132: the queue is set up with the start URL
crawl_begin ==
    /\ pc = "crawl"
    /\ min_pages - Cardinality(visited_urls) > 0
    /\ queue' = <<[url |-> start_url, depth |-> 0, parent |-> PyNone]>>
    /\ pc' = "loop"
    /\ UNCHANGED <<Aside, Config, start_url, Session, cur, Disk, History>>

\* a loop that runs one page past the target
LoopGuardLate == queue # <<>> /\ downloaded_count <= min_pages

\* the condition of the while loop
LoopGuard == queue # <<>> /\ downloaded_count < min_pages

\* queue.pop(): the last entry instead of the first
PopLast(q) == [entry |-> q[Len(q)], rest |-> SubSeq(q, 1, Len(q) - 1)]

\* queue.pop(0)
Pop(q) == [entry |-> Head(q), rest |-> Tail(q)]

\* the tests without the visited test
SkipDepthOnly(e) == e.depth > max_depth

\* the two "continue" tests before the fetch
Skip(e) == e.url \in visited_urls \/ e.depth > max_depth

\* one loop iteration up to the tests: the entry is dropped
crawl_skip ==
    /\ pc = "loop"
    /\ LoopGuard
    /\ Skip(Pop(queue).entry)
    /\ queue' = Pop(queue).rest
    /\ deqLog' = Append(deqLog, Pop(queue).entry.depth)
    /\ UNCHANGED <<Aside, Config, start_url, Session, cur, pc, Disk, run, loaded,
                   fetchLog, intAt>>

\* one loop iteration up to the call of get_page_content
crawl_fetch ==
    /\ pc = "loop"
    /\ LoopGuard
    /\ ~Skip(Pop(queue).entry)
    /\ queue' = Pop(queue).rest
    /\ cur' = Pop(queue).entry
    /\ deqLog' = Append(deqLog, Pop(queue).entry.depth)
    /\ pc' = "fetch"
    /\ UNCHANGED <<Aside, Config, start_url, Session, Disk, run, loaded, fetchLog, intAt>>

\* get_page_content returns the page's text
get_page_content_ok ==
    /\ pc = "fetch"
    /\ fetchLog' = Append(fetchLog, [url |-> cur.url, depth |-> cur.depth, ok |-> TRUE])
    /\ pc' = "count"
    /\ UNCHANGED <<Aside, Config, start_url, Session, queue, cur, Disk, run, loaded,
                   deqLog, intAt>>

\* a failed fetch that marks the URL visited all the same
get_page_content_fail_marked ==
    /\ pc = "fetch"
    /\ fetchLog' = Append(fetchLog, [url |-> cur.url, depth |-> cur.depth, ok |-> FALSE])
    /\ visited_urls' = visited_urls \cup {cur.url}
    /\ pc' = "loop"
    /\ UNCHANGED <<Aside, Config, start_url, results, downloaded_count, queue, cur, Disk,
                   run, loaded, deqLog, intAt>>

\* a failed fetch that puts the entry back on the queue
get_page_content_fail_requeue ==
    /\ pc = "fetch"
    /\ fetchLog' = Append(fetchLog, [url |-> cur.url, depth |-> cur.depth, ok |-> FALSE])
    /\ queue' = Append(queue, cur)
    /\ pc' = "loop"
    /\ UNCHANGED <<Aside, Config, start_url, Session, cur, Disk, run, loaded, deqLog, intAt>>

\* get_page_content returns None: transport error, bad status or non-text content
get_page_content_fail ==
    /\ pc = "fetch"
    /\ fetchLog' = Append(fetchLog, [url |-> cur.url, depth |-> cur.depth, ok |-> FALSE])
    /\ pc' = "loop"
    /\ UNCHANGED <<Aside, Config, start_url, Session, queue, cur, Disk, run, loaded,
                   deqLog, intAt>>

\* line 149: the counter is advanced
crawl_count ==
    /\ pc = "count"
    /\ downloaded_count' = downloaded_count + 1
    /\ pc' = "save_page"
    /\ UNCHANGED <<Aside, Config, start_url, visited_urls, results, queue, cur, Disk, History>>

\* save_page: the text is written under the name page_<counter>.html
\* (a write that fails is reported and swallowed, lines 187-188; the step
\* changes nothing but the store either way)
save_page ==
    /\ pc = "save_page"
    /\ pages_dir' = {f \in pages_dir : f.filename # Filename(downloaded_count)}
                    \cup {[filename |-> Filename(downloaded_count), content |-> cur.url]}
    /\ pc' = "append"
    /\ UNCHANGED <<Aside, Config, start_url, Session, queue, cur, index_file, csv_file, History>>

\* the record lines 153-158 append
NewRecord(e) ==
    [file_number |-> downloaded_count,
     url |-> e.url,
     filename |-> Filename(downloaded_count),
     parent |-> IF e.parent # PyNone THEN e.parent ELSE <<"None">>]

\* lines 153-158: the record is appended
crawl_append ==
    /\ pc = "append"
    /\ results' = Append(results, NewRecord(cur))
    /\ pc' = "mark"
    /\ UNCHANGED <<Aside, Config, start_url, visited_urls, downloaded_count, queue, cur,
                   Disk, History>>

\* line 160: the URL is marked visited
crawl_mark ==
    /\ pc = "mark"
    /\ visited_urls' = visited_urls \cup {cur.url}
    /\ pc' = "expand"
    /\ UNCHANGED <<Aside, Config, start_url, results, downloaded_count, queue, cur,
                   Disk, History>>

\* links extracted at the maximum depth too
ExpandLate(depth) == depth <= max_depth

\* the test of line 163
Expand(depth) == depth < max_depth

\* the entries lines 165-167 append for the links in the order given
Enqueued(links, e) ==
    [i \in 1..Len(links) |-> [url |-> links[i], depth |-> e.depth + 1, parent |-> e.url]]

\* lines 163-167: the page's links are enqueued
crawl_expand ==
    /\ pc = "expand"
    /\ Expand(cur.depth)
    /\ \E new_links \in Orders(extract_links(cur.url)) :
          queue' = queue \o Enqueued(new_links, cur)
    /\ pc' = "checkpoint"
    /\ UNCHANGED <<Aside, Config, start_url, Session, cur, Disk, History>>

\* line 163: at the maximum depth no link is extracted
crawl_no_expand ==
    /\ pc = "expand"
    /\ ~Expand(cur.depth)
    /\ pc' = "checkpoint"
    /\ UNCHANGED <<Aside, Config, start_url, Session, queue, cur, Disk, History>>

\* the interval of the periodic save, line 170
SaveEvery == 10

\* a tenth page that is not followed by a save
crawl_checkpoint_unsaved ==
    /\ pc = "checkpoint"
    /\ downloaded_count % SaveEvery = 0
    /\ pc' = "loop"
    /\ UNCHANGED <<Aside, Config, start_url, Session, queue, cur, Disk, History>>

\* lines 170-172: the periodic save
crawl_checkpoint ==
    /\ pc = "checkpoint"
    /\ downloaded_count % SaveEvery = 0
    /\ save_all_data
    /\ pc' = "loop"
    /\ UNCHANGED <<Aside, Config, start_url, Session, queue, cur, pages_dir, History>>

\* line 170: no save is due
crawl_no_checkpoint ==
    /\ pc = "checkpoint"
    /\ downloaded_count % SaveEvery # 0
    /\ pc' = "loop"
    /\ UNCHANGED <<Aside, Config, start_url, Session, queue, cur, Disk, History>>

\* a crawl that returns without the final save
FinalSaveNone == UNCHANGED <<index_file, csv_file>>

\* line 174
FinalSave == save_all_data

\* line 174: the loop has ended, the final save
crawl_end ==
    /\ pc = "loop"
    /\ ~LoopGuard
    /\ FinalSave
    /\ pc' = "done"
    /\ UNCHANGED <<Aside, Config, start_url, Session, queue, cur, pages_dir, History>>

\* the positions of a process that crawl has entered and not left
Crawling == {"crawl", "loop", "fetch", "count", "save_page", "append", "mark",
             "expand", "checkpoint"}

\* a handler that writes the table and forgets the ledger
HandlerSaveCsvOnly == save_csv /\ UNCHANGED index_file

\* what the handler does before it exits
HandlerSave == save_all_data

\* signal_handler: SIGINT arrives while crawl runs
signal_handler ==
    /\ pc \in Crawling
    /\ HandlerSave
    /\ intAt' = pc
    /\ pc' = "exited"
    /\ UNCHANGED <<Aside, Config, start_url, Session, queue, cur, pages_dir, run, loaded,
                   fetchLog, deqLog>>

Next ==
    \/ \E u \in StartUrls(web) : WebSpider(u)
    \/ crawl_nothing_remaining
    \/ crawl_begin
    \/ crawl_skip
    \/ crawl_fetch
    \/ get_page_content_ok
    \/ get_page_content_fail
    \/ crawl_count
    \/ save_page
    \/ crawl_append
    \/ crawl_mark
    \/ crawl_expand
    \/ crawl_no_expand
    \/ crawl_checkpoint
    \/ crawl_no_checkpoint
    \/ crawl_end
    \/ signal_handler

Spec == Init /\ [][Next]_vars

----------------------------------------------------------------------------
(* Quantities read off the history of a run *)

\* the fetches of this run that returned a page, in order
RECURSIVE OkOf(_)
OkOf(log) == IF log = <<>> THEN <<>>
             ELSE IF Head(log).ok THEN <<Head(log)>> \o OkOf(Tail(log))
             ELSE OkOf(Tail(log))

OkFetches == OkOf(fetchLog)
NumOk == Len(OkFetches)
AllOk == \A i \in DOMAIN fetchLog : fetchLog[i].ok
RecordedUrls == {results[i].url : i \in DOMAIN results}
LoadedUrls == {results[i].url : i \in 1..loaded}

\* the URL a ledger line carries: what follows its first blank
LineUrl(line) == SubSeq(line, FirstSpace(line, 1) + 1, Len(line))

\* the crawlable links of a page
ValidLinks(u) == {l \in Hrefs(web, u) : is_valid_url(l)}

\* the pages within d crawlable links of the pages of S
RECURSIVE ReachWithin(_, _)
ReachWithin(S, d) ==
    IF d = 0 THEN S
    ELSE ReachWithin(S \cup UNION {ValidLinks(u) : u \in S}, d - 1)

----------------------------------------------------------------------------
(* The claims *)

\* C1: a fetch is never issued for a URL that is in visited_urls at that
\* moment; so neither for a URL of a record held in memory (loaded from the
\* ledger or appended by this run) nor for a URL this run already fetched
\* successfully.
C1_NoRefetch ==
    pc = "fetch" =>
        /\ cur.url \notin visited_urls
        /\ cur.url \notin RecordedUrls
        /\ \A i \in DOMAIN OkFetches : OkFetches[i].url # cur.url

\* C1 witness: an entry whose URL was visited has been dequeued and dropped
\* (more dequeues than fetches) in a run that has fetched several pages.
C1_Witness ==
    /\ pc = "loop"
    /\ NumOk >= 3
    /\ Len(deqLog) > Len(fetchLog)

\* C2: a run on a ledger of k < min_pages records that hold the start URL
\* goes on crawling: when it is over and no fetch of it failed, either the
\* target is reached or no crawlable page within max_depth of the start URL
\* is left unvisited.
C2_ResumeContinues ==
    (/\ pc = "done"
     /\ loaded > 0
     /\ loaded < min_pages
     /\ start_url \in LoadedUrls
     /\ AllOk)
    => \/ downloaded_count >= min_pages
       \/ ReachWithin({start_url}, max_depth) \subseteq visited_urls

\* C3: when SIGINT arrives at the loop head (the last iteration is fully
\* processed, the next fetch has not started), the ledger on disk at exit
\* holds one line per record in memory, line for line, and their number is
\* the number of successful fetches (counted by downloaded_count).
C3_InterruptAtBoundary ==
    (pc = "exited" /\ intAt = "loop") =>
        /\ Len(index_file) = Len(results)
        /\ \A i \in DOMAIN results :
              index_file[i] = Str(results[i].file_number) \o <<" ">> \o results[i].url
        /\ Len(index_file) = loaded + NumOk
        /\ Len(index_file) = downloaded_count

\* C3 witness: interrupted after the 7th successful fetch of a run that
\* started without a ledger, 7 lines on disk and no periodic save before.
C3_Witness ==
    /\ pc = "exited"
    /\ intAt = "loop"
    /\ loaded = 0
    /\ NumOk = 7
    /\ Len(index_file) = 7

\* C4: wherever in crawl SIGINT arrives, the ledger on disk at exit lacks at
\* most one of the pages fetched successfully so far, and holds the others
\* in fetch order.
C4_LagAtMostOne ==
    pc = "exited" =>
        /\ Len(index_file) <= loaded + NumOk
        /\ Len(index_file) >= loaded + NumOk - 1
        /\ \A k \in 1..(NumOk - 1) : LineUrl(index_file[loaded + k]) = OkFetches[k].url

\* C4 witness: SIGINT between the steps of an iteration (after the fetch,
\* before the append), the ledger lacking exactly the page just fetched.
C4_Witness ==
    /\ pc = "exited"
    /\ intAt \in {"count", "save_page", "append"}
    /\ NumOk >= 2
    /\ Len(index_file) = loaded + NumOk - 1

\* the successful fetches never exceed min_pages and no fetch is under way
\* once the counter has reached min_pages
WithinTarget ==
    /\ loaded + NumOk <= min_pages
    /\ downloaded_count <= min_pages
    /\ pc \in {"fetch", "count"} => downloaded_count < min_pages

\* at the loop head with the counter at min_pages the process leaves the loop
LeavesAtTarget ==
    (pc = "loop" /\ downloaded_count >= min_pages) =>
        /\ pc' \in {"done", "exited"}
        /\ fetchLog' = fetchLog
        /\ deqLog' = deqLog

\* C5: the successful fetches never exceed min_pages, no fetch is under way
\* once the counter has reached min_pages, and at the loop head with the
\* counter at min_pages the loop ends without another dequeue or fetch.
C5_TargetBound == []WithinTarget /\ [][LeavesAtTarget]_vars

\* C5 witness: the loop has ended at the target with entries left in the queue.
C5_Witness ==
    /\ pc = "done"
    /\ downloaded_count = min_pages
    /\ NumOk > 0
    /\ queue # <<>>

\* C6: every fetch is issued at a depth in 0..max_depth, the queue never
\* holds an entry deeper than max_depth (the links of a page at max_depth
\* are not enqueued), and every record of this run belongs to such a fetch.
C6_DepthBound ==
    /\ \A i \in DOMAIN fetchLog : fetchLog[i].depth \in 0..max_depth
    /\ pc = "fetch" => cur.depth \in 0..max_depth
    /\ \A i \in DOMAIN queue : queue[i].depth \in 0..max_depth
    /\ \A i \in (loaded + 1)..Len(results) :
          /\ i - loaded \in DOMAIN OkFetches
          /\ OkFetches[i - loaded].url = results[i].url
          /\ OkFetches[i - loaded].depth \in 0..max_depth

\* C6 witness: a page with unvisited crawlable links was fetched at
\* max_depth and the link step is over.
C6_Witness ==
    /\ pc = "checkpoint"
    /\ max_depth > 0
    /\ cur.depth = max_depth
    /\ extract_links(cur.url) # {}

\* C7: the depths of the entries dequeued in a run never decrease, and the
\* queue holds its entries in non-decreasing depth, none shallower than the
\* last one dequeued.
C7_FifoDepths ==
    /\ \A i, j \in DOMAIN deqLog : i < j => deqLog[i] <= deqLog[j]
    /\ \A i, j \in DOMAIN queue : i < j => queue[i].depth <= queue[j].depth
    /\ (deqLog # <<>> /\ queue # <<>>) => deqLog[Len(deqLog)] <= queue[1].depth

\* C7 witness: entries of three depths dequeued, several of one depth.
C7_Witness ==
    /\ Len(deqLog) >= 5
    /\ {deqLog[i] : i \in DOMAIN deqLog} = {0, 1, 2}

\* C8: after the final save, loading index.txt into a fresh session gives
\* the visited set and the records (number, URL, filename, in order) of the
\* session that wrote it, and a counter equal to the highest number.
C8_RoundTrip ==
    pc = "done" =>
        LET st == load_existing_data(index_file, EmptySession)
        IN /\ st.visited_urls = visited_urls
           /\ Len(st.results) = Len(results)
           /\ \A i \in DOMAIN results :
                 /\ st.results[i].file_number = results[i].file_number
                 /\ st.results[i].url = results[i].url
                 /\ st.results[i].filename = results[i].filename
           /\ \A i \in DOMAIN results : st.downloaded_count >= results[i].file_number
           /\ results # <<>> =>
                 \E i \in DOMAIN results : st.downloaded_count = results[i].file_number

\* C9: the numbers of the records are positive and strictly increasing in
\* list (fetch) order, every record a resumed run adds has a number above
\* every loaded one, and a record numbered n has the filename page_n.html.
C9_SequenceNumbers ==
    /\ \A i \in DOMAIN results : results[i].file_number > 0
    /\ \A i, j \in DOMAIN results :
          i < j => results[i].file_number < results[j].file_number
    /\ \A i \in (loaded + 1)..Len(results) : \A j \in 1..loaded :
          results[i].file_number > results[j].file_number
    /\ \A i \in DOMAIN results :
          results[i].filename = <<"page_">> \o Str(results[i].file_number) \o <<".html">>

\* C9 witness: a run that loaded a ledger has added two records.
C9_Witness ==
    /\ loaded > 0
    /\ Len(results) >= loaded + 2

\* the seed and its links that a finished run recorded
SeedAndLinks ==
    /\ results[1].url = start_url
    /\ \A i \in 2..Len(results) : results[i].url \in ValidLinks(start_url)

\* C10: from an empty ledger, max_depth 1, a seed with at least
\* min_pages - 1 crawlable links, every fetch succeeding and no interruption:
\* crawl issues exactly min_pages fetches, the seed and min_pages - 1 of its
\* links, and ends with records numbered 1..min_pages and a ledger of
\* min_pages lines.
C10_EndToEnd ==
    (/\ pc = "done"
     /\ loaded = 0
     /\ max_depth = 1
     /\ Cardinality(ValidLinks(start_url)) >= min_pages - 1
     /\ AllOk)
    => /\ Len(fetchLog) = min_pages
       /\ Len(results) = min_pages
       /\ \A i \in DOMAIN results : results[i].file_number = i
       /\ SeedAndLinks
       /\ Cardinality(RecordedUrls) = min_pages
       /\ Len(index_file) = min_pages

\* C10 witness: the case of 5 links and a target of 3, finished.
C10_Witness ==
    /\ pc = "done"
    /\ loaded = 0
    /\ run = 1
    /\ max_depth = 1
    /\ min_pages = 3
    /\ Cardinality(ValidLinks(start_url)) = 5
    /\ AllOk
    /\ Len(index_file) = 3

----------------------------------------------------------------------------
(* is_valid_url applied on its own to URLs of a bounded set *)

\* longest host and longest path of a candidate URL, in atoms
MaxHostLen == 2
MaxPathLen == 2

\* the sequences over S of length lo..hi
SeqsOf(S, lo, hi) == UNION {[1..n -> S] : n \in lo..hi}

\* pieces of a host name; ".js" as in cdn.jsdelivr.net
HostAtoms == {"h", "x", ".js"}

\* pieces of a path, a query or a fragment
PathAtoms == {"a", ".js", ".JPG", "#", "SID=", "?"}

\* absolute URLs, and relative ones (no scheme, no host)
UrlCandidates ==
    {<<"https://">> \o h \o <<"/">> \o p :
        h \in SeqsOf(HostAtoms, 1, MaxHostLen), p \in SeqsOf(PathAtoms, 0, MaxPathLen)}
    \cup {<<"/">> \o p : p \in SeqsOf(PathAtoms, 0, MaxPathLen)}

\* the start URLs that give the base domains h, x and h.js
BaseUrls == {<<"https://">> \o h \o <<"/">> : h \in {<<"h">>, <<"x">>, <<"h", ".js">>}}

\* a session that has crawled nothing
CrawlIdle ==
    /\ web = "gen"
    /\ min_pages = 2
    /\ max_depth = 1
    /\ visited_urls = {}
    /\ results = <<>>
    /\ downloaded_count = 0
    /\ queue = <<>>
    /\ cur = NoEntry
    /\ index_file = <<>>
    /\ csv_file = <<>>
    /\ pages_dir = {}
    /\ run = 1
    /\ loaded = 0
    /\ fetchLog = <<>>
    /\ deqLog = <<>>
    /\ intAt = ""
    /\ failAt = ""

InitUrl ==
    /\ CrawlIdle
    /\ TextIdle
    /\ start_url \in BaseUrls
    /\ arg \in UrlCandidates
    /\ ret = "unset"
    /\ pc = "is_valid_url"

\* a Python bool as it prints
PyBool(b) == IF b THEN "True" ELSE "False"

\* is_valid_url(arg) is called and returns
call_is_valid_url ==
    /\ pc = "is_valid_url"
    /\ ret' = PyBool(is_valid_url(arg))
    /\ pc' = "returned"
    /\ UNCHANGED <<Config, start_url, Session, queue, cur, Disk, History, failAt,
                   TextState, arg>>

NextUrl == call_is_valid_url

SpecUrl == InitUrl /\ [][NextUrl]_vars

\* what follows the host in a URL: path, query and fragment
RECURSIVE FromDelim(_)
FromDelim(s) == IF s = <<>> \/ Head(s) \in {"/", "?", "#"} THEN s
                ELSE FromDelim(Tail(s))

PathQuery(url) == IF url # <<>> /\ Head(url) \in {"https://", "http://"}
                  THEN FromDelim(Tail(url)) ELSE url

\* C11: is_valid_url returns False for every URL whose host is non-empty and
\* differs from the base domain, and True for every URL of the base domain
\* (or without host) whose path and query hold no denied extension and that
\* holds no fragment marker and no session marker; the host does not count
\* for the extension rule.
C11_UrlFilter ==
    pc = "returned" =>
        /\ (Netloc(arg) # <<>> /\ Netloc(arg) # base_domain) => ret = "False"
        /\ (/\ Netloc(arg) \in {<<>>, base_domain}
            /\ ~ContainsLower(PathQuery(arg), DeniedExt)
            /\ ~Contains(arg, {"#"})
            /\ ~ContainsLower(arg, {"sessionid", "sid="}))
           => ret = "True"

\* C12: in the table a flush has written, every row of a record without
\* parent (fetched by this run or loaded from the ledger) has the text None
\* in its parent column.
C12_ParentNone ==
    pc \in {"done", "exited"} =>
        /\ Len(csv_file) = Len(results) + 1
        /\ \A i \in DOMAIN results :
              results[i].parent \in {PyNone, <<"None">>} => csv_file[i + 1][4] = <<"None">>

----------------------------------------------------------------------------
(* The text pass: characters, _is_valid_token *)

\* Characters are atoms: "a", "A" Latin; "cy_a", "CY_A" the Cyrillic a;
\* "cy_yo", "CY_YO" the letter yo, which lies outside the range of a-ya.
LatinLower == {"a", "b"}
LatinUpper == {"A", "B"}
CyrLower == {"cy_a", "cy_k"}
CyrUpper == {"CY_A", "CY_K"}
YoLetters == {"cy_yo", "CY_YO"}
DigitChars == {DigitAtoms[d] : d \in 1..10}

\* the characters token.strip removes: string.punctuation and the quotes and dashes
StripSet == {"-", "#", "'"}

\* the class [<>/{}[\]\\|@#$%^&*=~`]
SymbolClass == {"#"}

\* the class [a-zA-Zа-яА-Я] of lines 240 and 246
AzCyr == LatinLower \cup LatinUpper \cup CyrLower \cup CyrUpper

\* the class of lines 249 and 266, with the two forms of yo
Letters == AzCyr \cup YoLetters

\* str.lower() on one character
LowerChar(c) == CASE c = "A" -> "a"
                  [] c = "B" -> "b"
                  [] c = "CY_A" -> "cy_a"
                  [] c = "CY_K" -> "cy_k"
                  [] c = "CY_YO" -> "cy_yo"
                  [] OTHER -> c

LowerSeq(t) == [i \in DOMAIN t |-> LowerChar(t[i])]

\* str.strip(chars)
RECURSIVE StripChars(_, _)
StripChars(t, chars) ==
    IF t = <<>> THEN t
    ELSE IF Head(t) \in chars THEN StripChars(Tail(t), chars)
    ELSE IF t[Len(t)] \in chars THEN StripChars(SubSeq(t, 1, Len(t) - 1), chars)
    ELSE t

\* the entries of _load_russian_stopwords that the model's letters spell
stopwords == {<<"cy_a">>, <<"cy_k">>, <<"cy_k", "cy_a">>, <<"cy_k", "cy_a", "cy_k">>}

\* the longest token accepted, line 231
MaxTokenChars == 50

\* the class of the back-referenced group of line 246
RunClass == AzCyr

\* re.match(r'^([..])\1{2,}$'): three or more copies of one character of the class
IsRun(t) == Len(t) >= 3 /\ t[1] \in RunClass /\ \A i \in DOMAIN t : t[i] = t[1]

\* _is_valid_token
is_valid_token(token) ==
    LET t == LowerSeq(StripChars(token, StripSet))
    IN IF t = <<>> \/ Len(t) < 2 \/ Len(t) > MaxTokenChars THEN FALSE
       ELSE IF t \in stopwords THEN FALSE
       ELSE IF \A i \in DOMAIN t : t[i] \in DigitChars THEN FALSE
       ELSE IF (\E i \in DOMAIN t : t[i] \in AzCyr) /\ (\E i \in DOMAIN t : t[i] \in DigitChars)
            THEN FALSE
       ELSE IF \A i \in DOMAIN t : t[i] \in SymbolClass THEN FALSE
       ELSE IF IsRun(t) THEN FALSE
       ELSE IF ~(\A i \in DOMAIN t : t[i] \in Letters) THEN FALSE
       ELSE TRUE

\* longest candidate token, in characters
MaxTokLen == 4

\* the characters candidates are made of
TokChars == {"a", "A", "cy_k", "cy_yo", "CY_YO", "1", "-"}

InitTok ==
    /\ CrawlIdle
    /\ TextIdle
    /\ start_url = GenRoot
    /\ arg \in SeqsOf(TokChars, 0, MaxTokLen)
    /\ ret = "unset"
    /\ pc = "is_valid_token"

\* _is_valid_token(arg) is called and returns
call_is_valid_token ==
    /\ pc = "is_valid_token"
    /\ ret' = PyBool(is_valid_token(arg))
    /\ pc' = "returned"
    /\ UNCHANGED <<Config, start_url, Session, queue, cur, Disk, History, failAt,
                   TextState, arg>>

NextTok == call_is_valid_token

SpecTok == InitTok /\ [][NextTok]_vars

\* C19: _is_valid_token rejects every candidate that, trimmed and
\* lowercased, is three or more copies of one letter, whichever letter of
\* the accepted alphabet (Latin, Cyrillic, yo) it is.
C19_RejectsRuns ==
    pc = "returned" =>
        LET t == LowerSeq(StripChars(arg, StripSet))
        IN (Len(t) >= 3 /\ t[1] \in Letters /\ \A i \in DOMAIN t : t[i] = t[1])
           => ret = "False"

----------------------------------------------------------------------------
(* The text pass: process_downloaded_pages *)

\* tags of a page body; the text of a page is a sequence of characters and tags
OpenScript == "<script>"
CloseScript == "</script>"
Tags == {"<p>", "</p>", OpenScript, CloseScript}

\* tag.decompose() for the uninformative tags: the element goes with its content
RECURSIVE Decompose(_, _)
Decompose(html, inside) ==
    IF html = <<>> THEN <<>>
    ELSE IF inside
         THEN Decompose(Tail(html), Head(html) # CloseScript)
         ELSE IF Head(html) = OpenScript THEN Decompose(Tail(html), TRUE)
              ELSE <<Head(html)>> \o Decompose(Tail(html), FALSE)

\* re.sub(r'\s+', ' ', text)
RECURSIVE Collapse(_)
Collapse(text) ==
    IF Len(text) < 2 THEN text
    ELSE IF text[1] = " " /\ text[2] = " " THEN Collapse(Tail(text))
    ELSE <<Head(text)>> \o Collapse(Tail(text))

\* _extract_text_from_html: the text nodes of what is left, joined by a blank
extract_text_from_html(html_content) ==
    LET kept == Decompose(html_content, FALSE)
        text == [i \in DOMAIN kept |-> IF kept[i] \in Tags THEN " " ELSE kept[i]]
    IN Collapse(StripChars(text, {" "}))

\* length of the run of letters that text starts with
LetterRun(text) ==
    CHOOSE n \in 1..Len(text) :
        /\ \A i \in 1..n : text[i] \in Letters
        /\ n = Len(text) \/ text[n + 1] \notin Letters

\* _tokenize_text: re.findall of the maximal runs of letters
RECURSIVE tokenize_text(_)
tokenize_text(text) ==
    IF text = <<>> THEN <<>>
    ELSE IF Head(text) \notin Letters THEN tokenize_text(Tail(text))
    ELSE <<SubSeq(text, 1, LetterRun(text))>>
         \o tokenize_text(SubSeq(text, LetterRun(text) + 1, Len(text)))

\* _lemmatize_token: the analyser's normal form, a function of the token
\* alone; it lowercases, and here it knows one inflected form
lemmatize_token(token) ==
    IF LowerSeq(token) = <<"a", "b", "b">> THEN <<"a", "b">> ELSE LowerSeq(token)

\* lemma_to_tokens[lemma] = {token}: the group keeps only the last form
GroupReplace(m, lemma, token) ==
    [l \in DOMAIN m \cup {lemma} |-> IF l = lemma THEN {token} ELSE m[l]]

\* lemma_to_tokens[lemma].add(token) on a defaultdict(set)
GroupAdd(m, lemma, token) ==
    [l \in DOMAIN m \cup {lemma} |->
        (IF l \in DOMAIN m THEN m[l] ELSE {}) \cup (IF l = lemma THEN {token} ELSE {})]

\* the loop of lines 294-298 over raw_tokens; st = [all, groups]
RECURSIVE TokenLoop(_, _)
TokenLoop(raw_tokens, st) ==
    IF raw_tokens = <<>> THEN st
    ELSE LET token == Head(raw_tokens)
         IN TokenLoop(Tail(raw_tokens),
                IF is_valid_token(token)
                THEN [all |-> st.all \cup {token},
                      groups |-> GroupAdd(st.groups, lemmatize_token(token), token)]
                ELSE st)

\* the characters in code point order
CodeOrder == <<" ", "#", "'", "-", "0", "1", "2", "3", "4", "5", "6", "7", "8", "9",
               "A", "B", "a", "b", "CY_YO", "CY_A", "CY_K", "cy_a", "cy_k", "cy_yo">>

Rank(c) == CHOOSE i \in DOMAIN CodeOrder : CodeOrder[i] = c

\* s < t as Python compares strings
RECURSIVE StrLess(_, _)
StrLess(s, t) ==
    IF t = <<>> THEN FALSE
    ELSE IF s = <<>> THEN TRUE
    ELSE IF Head(s) = Head(t) THEN StrLess(Tail(s), Tail(t))
    ELSE Rank(Head(s)) < Rank(Head(t))

\* sorted(S) for a set of strings
RECURSIVE sorted(_)
sorted(S) ==
    IF S = {} THEN <<>>
    ELSE LET least == CHOOSE x \in S : \A y \in S \ {x} : StrLess(x, y)
         IN <<least>> \o sorted(S \ {least})

\* ' '.join(tokens)
RECURSIVE Join(_)
Join(tokens) ==
    IF tokens = <<>> THEN <<>>
    ELSE IF Len(tokens) = 1 THEN tokens[1]
    ELSE tokens[1] \o <<" ">> \o Join(Tail(tokens))

\* _save_tokens: one token a line, sorted
TokensText(tokens_set) == sorted(tokens_set)

\* _save_lemmas: "<lemma> <form> <form> ..." a line, lemmas and forms sorted
LemmasText(lemma_dict) ==
    LET lemmas == sorted(DOMAIN lemma_dict)
    IN [i \in DOMAIN lemmas |->
           lemmas[i] \o <<" ">> \o Join(sorted(lemma_dict[lemmas[i]]))]

\* most pages a processed session holds
MaxDocs == 2

DocUrl(i) == <<"https://", "d", "/">> \o Str(i)

\* page bodies: case variants of one word; an inflected form, a word with a
\* digit after it and a script; a stopword, runs of one letter, a
\* capitalised word; an empty page
Bodies ==
    { <<"<p>", "A", "b", " ", "a", "b", "</p>">>,
      <<"a", "b", "b", " ", "b", "a", "-", "1", OpenScript, "b", "b", CloseScript, "a", "b">>,
      <<"cy_k", "cy_a", " ", "cy_yo", "cy_yo", "cy_yo", " ", "a", "a", "a", " ", "b", " ",
        "CY_K", "cy_a", "cy_k", "cy_a">>,
      <<>> }

DocRecord(i) ==
    [file_number |-> i, url |-> DocUrl(i), filename |-> Filename(i), parent |-> <<"None">>]

\* a finished crawl of n pages, some of whose files may have been removed
\* since, about to be processed (line 337)
InitText ==
    /\ web = "gen"
    /\ \E n \in 1..MaxDocs :
          /\ min_pages = n
          /\ results = [i \in 1..n |-> DocRecord(i)]
          /\ downloaded_count = n
          /\ \E body \in [1..n -> Bodies], present \in SUBSET (1..n) :
                pages_dir = {[filename |-> Filename(i), content |-> body[i]] : i \in present}
    /\ max_depth = 1
    /\ start_url = DocUrl(1)
    /\ visited_urls = {results[i].url : i \in DOMAIN results}
    /\ queue = <<>>
    /\ cur = NoEntry
    /\ index_file = IndexText(results)
    /\ csv_file = CsvText(results)
    /\ run = 1
    /\ loaded = 0
    /\ fetchLog = <<>>
    /\ deqLog = <<>>
    /\ intAt = ""
    /\ failAt = ""
    /\ TextIdle
    /\ NoCall
    /\ pc = "process"

Crawled == <<Config, start_url, Session, queue, cur, Disk, History, failAt, Call>>

\* lines 276-277
process_begin ==
    /\ pc = "process"
    /\ all_tokens' = {}
    /\ lemma_to_tokens' = <<>>
    /\ page_no' = 1
    /\ pc' = "pages"
    /\ UNCHANGED <<Crawled, tokens_file, lemmas_file>>

FileOf(result) == {f \in pages_dir : f.filename = result.filename}

\* lines 284-286: the page's file is not there
process_page_missing ==
    /\ pc = "pages"
    /\ page_no <= Len(results)
    /\ FileOf(results[page_no]) = {}
    /\ page_no' = page_no + 1
    /\ UNCHANGED <<Crawled, all_tokens, lemma_to_tokens, tokens_file, lemmas_file, pc>>

\* lines 288-290, 300-302: reading or parsing the file raises
process_page_unreadable ==
    /\ pc = "pages"
    /\ page_no <= Len(results)
    /\ FileOf(results[page_no]) # {}
    /\ page_no' = page_no + 1
    /\ UNCHANGED <<Crawled, all_tokens, lemma_to_tokens, tokens_file, lemmas_file, pc>>

\* lines 288-298
process_page ==
    /\ pc = "pages"
    /\ page_no <= Len(results)
    /\ \E f \in FileOf(results[page_no]) :
          LET raw_tokens == tokenize_text(extract_text_from_html(f.content))
              st == TokenLoop(raw_tokens, [all |-> all_tokens, groups |-> lemma_to_tokens])
          IN /\ all_tokens' = st.all
             /\ lemma_to_tokens' = st.groups
    /\ page_no' = page_no + 1
    /\ UNCHANGED <<Crawled, tokens_file, lemmas_file, pc>>

\* lines 304-308
process_end ==
    /\ pc = "pages"
    /\ page_no > Len(results)
    /\ tokens_file' = TokensText(all_tokens)
    /\ lemmas_file' = LemmasText(lemma_to_tokens)
    /\ pc' = "processed"
    /\ UNCHANGED <<Crawled, all_tokens, lemma_to_tokens, page_no>>

NextText ==
    \/ process_begin
    \/ process_page_missing
    \/ process_page_unreadable
    \/ process_page
    \/ process_end

SpecText == InitText /\ [][NextText]_vars

RECURSIVE SumSizes(_, _)
SumSizes(m, ls) ==
    IF ls = {} THEN 0
    ELSE LET l == CHOOSE x \in ls : TRUE
         IN Cardinality(m[l]) + SumSizes(m, ls \ {l})

C18_LowercaseTokens ==
    pc = "processed" =>
        /\ \A t \in all_tokens : t = LowerSeq(t)
        /\ \A l \in DOMAIN lemma_to_tokens : \A t \in lemma_to_tokens[l] : t = LowerSeq(t)
        /\ \A s, t \in all_tokens : LowerSeq(s) = LowerSeq(t) => s = t

----------------------------------------------------------------------------
(* Failed fetches *)

LastFetch == fetchLog[Len(fetchLog)]

\* a step in which get_page_content returns None
FetchFails ==
    /\ pc = "fetch"
    /\ Len(fetchLog') = Len(fetchLog) + 1
    /\ ~fetchLog'[Len(fetchLog')].ok

\* C14: an iteration whose fetch fails leaves the counter, the records,
\* the visited set and the page store as they were, enqueues nothing, and
\* goes back to the head of the loop for the next frontier entry.
C14_FailedFetchSkips ==
    [][FetchFails =>
          /\ UNCHANGED <<downloaded_count, results, visited_urls, pages_dir, queue>>
          /\ UNCHANGED <<index_file, csv_file>>
          /\ pc' = "loop"]_vars

C14_Witness ==
    /\ pc = "fetch"
    /\ fetchLog # <<>>
    /\ ~LastFetch.ok
    /\ NumOk >= 1
    /\ Len(deqLog) = Len(fetchLog) + 1

\* C15: a URL whose fetch failed is not fetched again in the same run,
\* also when several fetched pages link to it.
C15_FailedNotRetried ==
    pc = "fetch" =>
        \A i \in DOMAIN fetchLog : ~fetchLog[i].ok => fetchLog[i].url # cur.url

----------------------------------------------------------------------------
(* Periodic saves *)

\* records held in memory beyond the lines of the ledger on disk
Unsaved == Len(results) - Len(index_file)

\* C17: the ledger is written after every successful fetch whose number is
\* a multiple of 10, so between iterations at most 9 records are not yet in
\* the ledger on disk, also in a run resumed from a counter that is not a
\* multiple of 10.
C17_PeriodicFlush ==
    pc = "loop" =>
        /\ Unsaved <= SaveEvery - 1
        /\ (NumOk >= 1 /\ downloaded_count % SaveEvery = 0) => index_file = IndexText(results)

C17_Witness ==
    /\ pc = "loop"
    /\ run = 2
    /\ loaded % SaveEvery # 0
    /\ loaded >= 1
    /\ downloaded_count = SaveEvery
    /\ Len(index_file) = SaveEvery

----------------------------------------------------------------------------
(* Saves that fail *)

Prefixes(text) == {SubSeq(text, 1, k) : k \in 0..(Len(text) - 1)}

\* save_all_data raises: open() or write() of the ledger fails (the table is
\* not reached), or the ledger is written and the table fails; a file whose
\* open succeeded holds what was written before the failure
save_all_data_raises ==
    \/ UNCHANGED <<index_file, csv_file>>
    \/ index_file' \in Prefixes(IndexText(results)) /\ UNCHANGED csv_file
    \/ index_file' = IndexText(results) /\ UNCHANGED csv_file
    \/ index_file' = IndexText(results) /\ csv_file' \in Prefixes(CsvText(results))

\* the exception leaves save_all_data and its caller: neither has a handler
Raised(at) ==
    /\ failAt' = at
    /\ pc' = "crashed"
    /\ UNCHANGED <<TextState, Call, Config, start_url, Session, queue, cur, pages_dir, History>>

\* lines 170-172: the periodic save raises
crawl_checkpoint_raises ==
    /\ pc = "checkpoint"
    /\ downloaded_count % SaveEvery = 0
    /\ save_all_data_raises
    /\ Raised("checkpoint")

\* line 174: the final save raises
crawl_end_raises ==
    /\ pc = "loop"
    /\ ~LoopGuard
    /\ save_all_data_raises
    /\ Raised("end")

\* lines 123-124: the save of a crawl with nothing left to do raises
crawl_nothing_remaining_raises ==
    /\ pc = "crawl"
    /\ min_pages - Cardinality(visited_urls) <= 0
    /\ save_all_data_raises
    /\ Raised("crawl")

\* line 62: the save of the interrupt handler raises
signal_handler_raises ==
    /\ pc \in Crawling
    /\ save_all_data_raises
    /\ Raised("signal_handler")

NextIO ==
    \/ Next
    \/ crawl_checkpoint_raises
    \/ crawl_end_raises
    \/ crawl_nothing_remaining_raises
    \/ signal_handler_raises

SpecIO == Init /\ [][NextIO]_vars

\* C16: a failure to write the ledger or the table during a periodic save
\* does not stop the crawl loop: the crawl goes on with its records, and a
\* later save writes them all.
C16_FlushFailureNonFatal ==
    failAt = "checkpoint" => pc \in Crawling \cup {"done", "exited"}

----------------------------------------------------------------------------
(* Termination of crawl *)

\* the steps of crawl(): every call it makes returns
CrawlStep ==
    \/ crawl_nothing_remaining
    \/ crawl_begin
    \/ crawl_skip
    \/ crawl_fetch
    \/ get_page_content_ok
    \/ get_page_content_fail
    \/ crawl_count
    \/ save_page
    \/ crawl_append
    \/ crawl_mark
    \/ crawl_expand
    \/ crawl_no_expand
    \/ crawl_checkpoint
    \/ crawl_no_checkpoint
    \/ crawl_end

\* at each of its positions crawl() has a step to take: ENABLED <<CrawlStep>>_vars
CrawlEnabled == pc \in Crawling

\* weak fairness of CrawlStep, WF_vars(CrawlStep), written out with
\* CrawlEnabled for its ENABLED
LiveSpec == Spec /\ ([]<>~CrawlEnabled \/ []<><<CrawlStep>>_vars)

RECURSIVE LinksOf(_)
LinksOf(log) ==
    IF log = <<>> THEN 0
    ELSE Cardinality(ValidLinks(Head(log).url)) + LinksOf(Tail(log))

\* the entries ever enqueued in this run are the seed and links of pages
\* fetched successfully, and no page is fetched successfully twice
DequeueBound ==
    /\ Len(deqLog) + Len(queue) <= 1 + LinksOf(OkFetches)
    /\ \A i, j \in DOMAIN OkFetches : OkFetches[i].url = OkFetches[j].url => i = j

\* C20: whatever fetches succeed or fail, the crawl loop ends, at the
\* target count or with an empty frontier, after a bounded number of
\* dequeues, although the frontier may hold one URL several times.
C20_Terminates ==
    /\ []DequeueBound
    /\ (pc \in Crawling) ~> (pc \in {"done", "exited"})

C20_Witness ==
    /\ pc = "done"
    /\ queue = <<>>
    /\ downloaded_count < min_pages
    /\ ~AllOk
    /\ \E i, j \in DOMAIN fetchLog : i < j /\ fetchLog[i].url = fetchLog[j].url

====
